---------------------------- MODULE Spec2Model ----------------------------
(* Restaurant dimension of the food delivery warehouse                     *)
(* (src/etl_implementation.py): stage load, transformation to the clean    *)
(* layer, the SCD2 merge of DIM_RESTAURANT in the bulk path                *)
(* (populate_dimension_tables) and in the scheduled task                   *)
(* PROCESS_RESTAURANT_STREAM (setup_incremental_loads); and the order      *)
(* path: products, orders and order items from stage to clean, DIM_DATE,   *)
(* DIM_TIME, FACT_ORDER and FACT_ORDER_ITEM (populate_fact_tables), in the *)
(* order run_etl_pipeline calls them on its connection.                    *)
(*                                                                         *)
(* Every SQL statement is sent on its own through execute_query on an      *)
(* autocommit connection, and the task body is a scripting block without   *)
(* an explicit transaction, so each statement is one committed step.       *)
EXTENDS Integers, Sequences, FiniteSets, TLC

(* ------------------------------ bounds --------------------------------- *)
MaxTime == 3
MaxStage == 2
MaxClean == 2
MaxDim == 3
MaxRuns == 2
MaxFact == 2

(* --------------------------- value domains ----------------------------- *)
NULL == "NULL"
NullTime == 0 - 1          \* NULL in a timestamp column
NullSk == 0 - 1            \* NULL in a surrogate key column
Keys == {"R1", "R2"}
Names == {"A", "B", NULL}
Tracked == {"restaurant_name", "country", "email"}

\* the raw restaurant rows an extract may hold: one restaurant whose name
\* varies, a second restaurant, and a row without its location number
RawRows == {[loc_number |-> "R1", loc_name |-> n] : n \in Names}
           \cup {[loc_number |-> "R2", loc_name |-> "A"],
                 [loc_number |-> NULL, loc_name |-> "A"]}

\* the raw order rows an extract may hold: an order placed on a full minute
\* or thirty seconds past it, and a row without its id
Stamps == {[date |-> "2021-06-01", time |-> tm] : tm \in {"12:00:00", "12:00:30"}}
OrderRows == {[id |-> "O1", customer_id |-> "U1", created_at |-> s] : s \in Stamps}
             \cup {[id |-> NULL, customer_id |-> "U1",
                    created_at |-> [date |-> "2021-06-01", time |-> "12:00:00"]]}
\* the date_id and time_id values of the generated calendar and minutes that
\* these orders can fall on
Calendar == {"2021-06-01"}
Minutes == {"12:00:00"}
\* the raw order item rows: an item of order O1 and an item of an order that
\* no extract holds
ItemRows == {[id |-> "I1", order_id |-> o, product_id |-> "P1"] : o \in {"O1", "O2"}}
\* the raw product rows: a priced product and one whose price is no number;
\* a price is the sequence of its characters
ProductRows == {[id |-> "P1", price |-> <<"$", "5">>],
                [id |-> "P2", price |-> <<"$", "x">>]}
\* a product extract: the priced product alone, or both products
ProductExtracts == {<<[id |-> "P1", price |-> <<"$", "5">>]>>,
                    <<[id |-> "P1", price |-> <<"$", "5">>],
                      [id |-> "P2", price |-> <<"$", "x">>]>>}
\* an extract of at most one row
OrderExtracts == {<<>>} \cup {<<r>> : r \in OrderRows}
ItemExtracts == {<<>>} \cup {<<r>> : r \in ItemRows}

VARIABLES
    stg,           \* STAGE_SCHEMA.STG_RESTAURANTS, in load order
    deleted,       \* staged rows deleted since the stream's offset
    streamExists,  \* RESTAURANT_STREAM and its task have been created
    streamOffset,  \* number of staged rows the stream has consumed
    clean,         \* CLEAN_SCHEMA.CLEAN_RESTAURANTS
    dim,           \* CONSUMPTION_SCHEMA.DIM_RESTAURANT, index = restaurant_sk
    now,           \* latest CURRENT_TIMESTAMP() handed to a statement
    bulkPc,        \* position inside populate_dimension_tables
    taskPc,        \* position inside one run of PROCESS_RESTAURANT_STREAM
    batch,         \* change events read by the current / last task run
    taskStart,     \* watermark, clean and dim tables when that run started
    stgProducts,   \* STAGE_SCHEMA.STG_PRODUCTS
    cleanProducts, \* CLEAN_SCHEMA.CLEAN_PRODUCTS
    stgOrders,     \* STAGE_SCHEMA.STG_ORDERS
    stgItems,      \* STAGE_SCHEMA.STG_ORDER_ITEMS
    cleanOrders,   \* CLEAN_SCHEMA.CLEAN_ORDERS, index = order_sk
    cleanItems,    \* CLEAN_SCHEMA.CLEAN_ORDER_ITEMS, index = order_item_sk
    dimDate,       \* copies of the generated calendar held by DIM_DATE
    dimTime,       \* copies of the generated minutes held by DIM_TIME
    factOrder,     \* CONSUMPTION_SCHEMA.FACT_ORDER
    factItem,      \* CONSUMPTION_SCHEMA.FACT_ORDER_ITEM
    pipePc,        \* position inside run_etl_pipeline
    connOpen,      \* the connector of the running pipeline holds an open connection
    runs           \* number of times run_etl_pipeline was started

restaurantVars == <<stg, deleted, streamExists, streamOffset, clean, dim, now, bulkPc,
                    taskPc, batch, taskStart>>

factVars == <<stgProducts, cleanProducts, stgOrders, stgItems, cleanOrders,
              cleanItems, dimDate, dimTime, factOrder, factItem, pipePc,
              connOpen, runs>>

vars == <<stg, deleted, streamExists, streamOffset, clean, dim, now, bulkPc, taskPc,
          batch, taskStart, stgProducts, cleanProducts, stgOrders, stgItems,
          cleanOrders, cleanItems, dimDate, dimTime, factOrder, factItem,
          pipePc, connOpen, runs>>

(* ------------------------ SQL three-valued logic ----------------------- *)
\* a comparison under which a missing value differs from everything
SqlNeNullDiffers(x, y) == IF x = NULL \/ y = NULL THEN "TRUE"
                          ELSE IF x /= y THEN "TRUE" ELSE "FALSE"

\* target.a != source.a
SqlNe(x, y) == IF x = NULL \/ y = NULL THEN NULL
               ELSE IF x /= y THEN "TRUE" ELSE "FALSE"

SqlEq(x, y) == IF x = NULL \/ y = NULL THEN NULL
               ELSE IF x = y THEN "TRUE" ELSE "FALSE"

SqlEqTime(x, y) == IF x = NullTime \/ y = NullTime THEN NULL
                   ELSE IF x = y THEN "TRUE" ELSE "FALSE"

SqlOr(S) == IF "TRUE" \in S THEN "TRUE"
            ELSE IF NULL \in S THEN NULL ELSE "FALSE"

(* -------------------------- sequence helpers --------------------------- *)
RECURSIVE Flatten(_)
Flatten(ss) == IF ss = <<>> THEN <<>> ELSE Head(ss) \o Flatten(Tail(ss))

Repeat(x, n) == [i \in 1..n |-> x]

(* ----------------------------- statements ------------------------------ *)
\* the SELECT list of the restaurant transform at timestamp t
CleanOf(r, t) ==
    [restaurant_id |-> r.loc_number, restaurant_name |-> r.loc_name,
     country |-> "USA", email |-> NULL,
     effective_from |-> t, effective_to |-> NullTime, is_current |-> TRUE,
     source_system |-> r.source_system, dw_created_at |-> t]

\* INSERT INTO CLEAN_RESTAURANTS ... FROM STG_RESTAURANTS WHERE loc_number IS NOT NULL
BulkTransform(rows, t) ==
    LET kept == SelectSeq(rows, LAMBDA r : r.loc_number /= NULL)
    IN  [i \in 1..Len(kept) |-> CleanOf(kept[i], t)]

\* the stream's rows without the filter on METADATA$ACTION
StreamTransformAll(events, t) == [i \in 1..Len(events) |-> CleanOf(events[i].row, t)]

\* INSERT INTO CLEAN_RESTAURANTS ... FROM RESTAURANT_STREAM WHERE METADATA$ACTION = 'INSERT'
StreamTransform(events, t) ==
    LET kept == SelectSeq(events, LAMBDA e : e.action = "INSERT")
    IN  [i \in 1..Len(kept) |-> CleanOf(kept[i].row, t)]

\* the VALUES / SELECT list of a DIM_RESTAURANT insert at timestamp t
DimOf(s, t) ==
    [restaurant_id |-> s.restaurant_id, restaurant_name |-> s.restaurant_name,
     country |-> s.country, email |-> s.email,
     effective_from |-> t, effective_to |-> NullTime, is_current |-> TRUE,
     dw_created_at |-> t]

\* ON target.restaurant_id = source.restaurant_id AND target.is_current = TRUE
MergeOn(d, s) == SqlEq(d.restaurant_id, s.restaurant_id) = "TRUE" /\ d.is_current

\* WHEN MATCHED AND (target.a != source.a OR ...)
Differs(d, s) == SqlOr({SqlNe(d[a], s[a]) : a \in Tracked}) = "TRUE"

\* a merge that overwrites the matched row in place instead of closing it
MergeOverwrite(target, source, t) ==
    LET hit(i) == {j \in 1..Len(source) :
                      MergeOn(target[i], source[j]) /\ Differs(target[i], source[j])}
        updated == [i \in 1..Len(target) |->
                      IF hit(i) /= {}
                      THEN LET j == CHOOSE j \in hit(i) : TRUE
                           IN  [target[i] EXCEPT !.restaurant_name = source[j].restaurant_name]
                      ELSE target[i]]
        notMatched == SelectSeq(source, LAMBDA s :
                          ~ \E i \in 1..Len(target) : MergeOn(target[i], s))
    IN  updated \o [j \in 1..Len(notMatched) |-> DimOf(notMatched[j], t)]

\* MERGE INTO DIM_RESTAURANT target USING source
Merge(target, source, t) ==
    LET updated == [i \in 1..Len(target) |->
                      IF \E j \in 1..Len(source) :
                            MergeOn(target[i], source[j]) /\ Differs(target[i], source[j])
                      THEN [target[i] EXCEPT !.effective_to = t, !.is_current = FALSE]
                      ELSE target[i]]
        notMatched == SelectSeq(source, LAMBDA s :
                          ~ \E i \in 1..Len(target) : MergeOn(target[i], s))
    IN  updated \o [j \in 1..Len(notMatched) |-> DimOf(notMatched[j], t)]

\* the join of the follow-up insert: closed rows stamped by this very instant
ClosedNow(d, s, t) ==
    /\ SqlEq(d.restaurant_id, s.restaurant_id) = "TRUE"
    /\ ~ d.is_current
    /\ SqlEqTime(d.effective_to, t) = "TRUE"

\* INSERT INTO DIM_RESTAURANT SELECT ... FROM CLEAN_RESTAURANTS source JOIN DIM_RESTAURANT target
InsertUpdated(target, source, t) ==
    target \o Flatten([j \in 1..Len(source) |->
        Repeat(DimOf(source[j], t),
               Cardinality({i \in 1..Len(target) : ClosedNow(target[i], source[j], t)}))])

\* NVL(MAX(dw_created_at), '1900-01-01') over DIM_RESTAURANT
MaxCreated(target) ==
    IF target = <<>> THEN 0
    ELSE CHOOSE m \in {target[i].dw_created_at : i \in 1..Len(target)} :
            \A i \in 1..Len(target) : target[i].dw_created_at <= m

\* the source of the task's MERGE
IncrementalSource(cl, target) ==
    SelectSeq(cl, LAMBDA c : c.effective_from >= MaxCreated(target))

\* rows visible through RESTAURANT_STREAM: the rows staged since its offset,
\* then the rows deleted since
Pending == [i \in 1..(Len(stg) - streamOffset) |->
               [action |-> "INSERT", row |-> stg[streamOffset + i]]]
           \o [i \in 1..Len(deleted) |-> [action |-> "DELETE", row |-> deleted[i]]]

(* ------------------------------- clock --------------------------------- *)
\* the first statement of an operation runs strictly later than all before it
Later(t) == t = now + 1 /\ t <= MaxTime
\* a following statement of the same operation may see the same instant
NotEarlier(t) == t \in {now, now + 1} /\ t <= MaxTime

(* ------------------------------- Init ---------------------------------- *)
Snapshot == [offset |-> streamOffset, clean |-> clean, dim |-> dim]
NoRun == [offset |-> 0, clean |-> <<>>, dim |-> <<>>]

Init ==
    /\ stg = <<>>
    /\ deleted = <<>>
    /\ streamExists = FALSE
    /\ streamOffset = 0
    /\ clean = <<>>
    /\ dim = <<>>
    /\ now = 0
    /\ bulkPc = "idle"
    /\ taskPc = "idle"
    /\ batch = <<>>
    /\ taskStart = NoRun
    /\ stgProducts = <<>>
    /\ cleanProducts = <<>>
    /\ stgOrders = <<>>
    /\ stgItems = <<>>
    /\ cleanOrders = <<>>
    /\ cleanItems = <<>>
    /\ dimDate = 0
    /\ dimTime = 0
    /\ factOrder = <<>>
    /\ factItem = <<>>
    /\ pipePc = "idle"
    /\ connOpen = FALSE
    /\ runs = 0

(* ------------------------------ bulk path ------------------------------ *)
\* run_etl_pipeline calls the pipeline steps one after the other, so a stage
\* load or a setup never falls inside populate_dimension_tables; neither is
\* read by the later statements of a task run, so they are taken between runs
BetweenRuns == bulkPc = "idle" /\ taskPc = "idle"

\* load_stage_tables: COPY INTO STG_RESTAURANTS appends the extract's rows,
\* each with the metadata columns of its load
LoadStage ==
    \E r \in RawRows :
        /\ BetweenRuns
        /\ Len(stg) < MaxStage
        /\ stg' = Append(stg, [loc_number |-> r.loc_number, loc_name |-> r.loc_name,
                               source_system |-> "UberEats",
                               source_file |-> "restaurants.csv",
                               load_timestamp |-> Len(stg) + 1])
        /\ UNCHANGED <<deleted, streamExists, streamOffset, clean, dim, now, bulkPc,
                       taskPc, batch, taskStart>>

\* transform_to_clean_layer, restaurant statement
TransformToClean ==
    \E t \in 1..MaxTime :
        /\ Later(t)
        /\ BulkTransform(stg, t) /= <<>>
        /\ Len(clean) + Len(BulkTransform(stg, t)) <= MaxClean
        /\ clean' = clean \o BulkTransform(stg, t)
        /\ now' = t
        /\ UNCHANGED <<stg, deleted, streamExists, streamOffset, dim, bulkPc, taskPc,
                       batch, taskStart>>

\* populate_dimension_tables: the MERGE statement
BulkMerge ==
    \E t \in 1..MaxTime :
        /\ bulkPc = "idle"
        /\ Later(t)
        /\ Len(Merge(dim, clean, t)) <= MaxDim
        /\ dim' = Merge(dim, clean, t)
        /\ now' = t
        /\ bulkPc' = "merged"
        /\ UNCHANGED <<stg, deleted, streamExists, streamOffset, clean, taskPc, batch,
                       taskStart>>

\* populate_dimension_tables: the insert for updated rows
BulkInsert ==
    \E t \in 0..MaxTime :
        /\ bulkPc = "merged"
        /\ NotEarlier(t)
        /\ Len(InsertUpdated(dim, clean, t)) <= MaxDim
        /\ dim' = InsertUpdated(dim, clean, t)
        /\ now' = t
        /\ bulkPc' = "idle"
        /\ UNCHANGED <<stg, deleted, streamExists, streamOffset, clean, taskPc, batch,
                       taskStart>>

\* execute_query raises on the insert: populate_dimension_tables is left
BulkFail ==
    /\ bulkPc = "merged"
    /\ bulkPc' = "idle"
    /\ UNCHANGED <<stg, deleted, streamExists, streamOffset, clean, dim, now, taskPc,
                   batch, taskStart>>

(* --------------------------- incremental path -------------------------- *)
\* setup_incremental_loads: CREATE OR REPLACE STREAM / TASK, ALTER TASK RESUME
SetupIncrementalLoads ==
    /\ BetweenRuns
    /\ ~ streamExists \/ streamOffset /= Len(stg) \/ deleted /= <<>>
    /\ streamExists' = TRUE
    /\ streamOffset' = Len(stg)
    /\ deleted' = <<>>
    /\ UNCHANGED <<stg, clean, dim, now, bulkPc, taskPc, batch, taskStart>>

\* WHEN SYSTEM$STREAM_HAS_DATA('STAGE_SCHEMA.RESTAURANT_STREAM')
TaskDue == streamExists /\ taskPc = "idle" /\ Pending /= <<>>

\* task statement 1: stream rows into the clean layer; the stream is consumed
TaskClean ==
    \E t \in 1..MaxTime :
        /\ TaskDue
        /\ Later(t)
        /\ Len(clean) + Len(StreamTransform(Pending, t)) <= MaxClean
        /\ clean' = clean \o StreamTransform(Pending, t)
        /\ streamOffset' = Len(stg)
        /\ deleted' = <<>>
        /\ batch' = Pending
        /\ taskStart' = Snapshot
        /\ now' = t
        /\ taskPc' = "cleaned"
        /\ UNCHANGED <<stg, streamExists, dim, bulkPc>>

\* task statement 2: the MERGE
TaskMerge ==
    \E t \in 0..MaxTime :
        /\ taskPc = "cleaned"
        /\ NotEarlier(t)
        /\ Len(Merge(dim, IncrementalSource(clean, dim), t)) <= MaxDim
        /\ dim' = Merge(dim, IncrementalSource(clean, dim), t)
        /\ now' = t
        /\ taskPc' = "merged"
        /\ UNCHANGED <<stg, deleted, streamExists, streamOffset, clean, bulkPc, batch,
                       taskStart>>

\* task statement 3: the insert for updated rows
TaskInsert ==
    \E t \in 0..MaxTime :
        /\ taskPc = "merged"
        /\ NotEarlier(t)
        /\ Len(InsertUpdated(dim, clean, t)) <= MaxDim
        /\ dim' = InsertUpdated(dim, clean, t)
        /\ now' = t
        /\ taskPc' = "committed"
        /\ UNCHANGED <<stg, deleted, streamExists, streamOffset, clean, bulkPc, batch,
                       taskStart>>

\* statement 1 fails: nothing was written
TaskFailFirst ==
    /\ TaskDue
    /\ batch' = <<>>
    /\ taskStart' = Snapshot
    /\ taskPc' = "failed"
    /\ UNCHANGED <<stg, deleted, streamExists, streamOffset, clean, dim, now, bulkPc>>

\* statement 2 or 3 fails: the run ends, earlier statements stay committed
TaskFail ==
    /\ taskPc \in {"cleaned", "merged"}
    /\ taskPc' = "failed"
    /\ UNCHANGED <<stg, deleted, streamExists, streamOffset, clean, dim, now, bulkPc,
                   batch, taskStart>>

\* COMMITTED -> IDLE, FAILED -> IDLE: the run is over and its batch is dropped
TaskReturn ==
    /\ taskPc \in {"committed", "failed"}
    /\ taskPc' = "idle"
    /\ batch' = <<>>
    /\ taskStart' = NoRun
    /\ UNCHANGED <<stg, deleted, streamExists, streamOffset, clean, dim, now, bulkPc>>

\* the restaurant path on its own: the order tables are left alone
Next ==
    \/ LoadStage /\ UNCHANGED factVars
    \/ TransformToClean /\ UNCHANGED factVars
    \/ BulkMerge /\ UNCHANGED factVars
    \/ BulkInsert /\ UNCHANGED factVars
    \/ BulkFail /\ UNCHANGED factVars
    \/ SetupIncrementalLoads /\ UNCHANGED factVars
    \/ TaskClean /\ UNCHANGED factVars
    \/ TaskMerge /\ UNCHANGED factVars
    \/ TaskInsert /\ UNCHANGED factVars
    \/ TaskFailFirst /\ UNCHANGED factVars
    \/ TaskFail /\ UNCHANGED factVars
    \/ TaskReturn /\ UNCHANGED factVars

Spec == Init /\ [][Next]_vars

(* ------------------------------ order path ----------------------------- *)
\* DIM_CUSTOMER, DIM_PROMOTION and DIM_PRODUCT: no statement writes them
DimCustomer == <<>>
DimPromotion == <<>>
DimProduct == <<>>

\* DATE(ts) and TIME(ts)
DateOf(ts) == ts.date
TimeOf(ts) == ts.time

\* REPLACE(price, '$', ''): every '$' is removed
RECURSIVE StripDollar(_)
StripDollar(p) ==
    IF p = <<>> THEN <<>>
    ELSE IF Head(p) = "$" THEN StripDollar(Tail(p))
    ELSE <<Head(p)>> \o StripDollar(Tail(p))

DigitChars == <<"0", "1", "2", "3", "4", "5", "6", "7", "8", "9">>

\* the text reads as a number (whole numbers, which the modelled prices are)
IsNumeric(p) ==
    p /= <<>> /\ \A i \in 1..Len(p) : \E d \in 1..Len(DigitChars) : DigitChars[d] = p[i]

RECURSIVE NumberOf(_)
NumberOf(p) ==
    IF p = <<>> THEN 0
    ELSE 10 * NumberOf(SubSeq(p, 1, Len(p) - 1))
         + (CHOOSE d \in 1..Len(DigitChars) : DigitChars[d] = p[Len(p)]) - 1

\* REPLACE(price, '$', '')::FLOAT raises on text that is no number
CastFails(r) == ~ IsNumeric(StripDollar(r.price))

\* the SELECT list of the product transform
CleanProductOf(r) ==
    [product_id |-> r.id, price |-> NumberOf(StripDollar(r.price))]

\* INSERT INTO CLEAN_PRODUCTS ... FROM STG_PRODUCTS: one statement over the
\* whole stage table; a cast that raises on one row fails the statement,
\* which then inserts nothing
ProductInsert ==
    IF \E i \in 1..Len(stgProducts) : CastFails(stgProducts[i])
    THEN cleanProducts
    ELSE cleanProducts \o [i \in 1..Len(stgProducts) |-> CleanProductOf(stgProducts[i])]

\* an order transform that names the restaurant of the order
CleanOrderKeyed(r) ==
    [order_id |-> r.id, customer_id |-> r.customer_id, restaurant_id |-> "R1",
     order_date |-> r.created_at, promotion_id |-> NULL]

\* the SELECT list of the order transform
CleanOrderOf(r) ==
    [order_id |-> r.id, customer_id |-> r.customer_id, restaurant_id |-> NULL,
     order_date |-> r.created_at, promotion_id |-> NULL]

\* the SELECT list of the order item transform
CleanItemOf(r) ==
    [order_item_id |-> r.id, order_id |-> r.order_id, product_id |-> r.product_id]

\* a join on the natural key alone, closed versions included
LookupAnyVersion(table, attr, key) ==
    SelectSeq([i \in 1..Len(table) |-> i],
              LAMBDA i : SqlEq(key, table[i][attr]) = "TRUE")

\* the rows of a dimension that ON key = dimension key AND is_current = TRUE joins
Lookup(table, attr, key) ==
    SelectSeq([i \in 1..Len(table) |-> i],
              LAMBDA i : SqlEq(key, table[i][attr]) = "TRUE" /\ table[i].is_current)

\* LEFT JOIN: a record without a match keeps one row, with NULL for the match
LeftJoin(matches, null) == IF matches = <<>> THEN <<null>> ELSE matches

\* the DIM_DATE rows with date_id = DATE(ts); a row is named by its date_id,
\* which date_sk (its row number in the calendar) is one-to-one with
DateLookup(ts) ==
    IF DateOf(ts) \in Calendar THEN Repeat(DateOf(ts), dimDate) ELSE <<>>

\* the DIM_TIME rows with time_id = TIME(ts)
TimeLookup(ts) ==
    IF TimeOf(ts) \in Minutes THEN Repeat(TimeOf(ts), dimTime) ELSE <<>>

\* the FACT_ORDER rows the SELECT yields for the clean order with order_sk = sk
FactOrderOf(sk) ==
    LET o == cleanOrders[sk]
        cs == LeftJoin(Lookup(DimCustomer, "customer_id", o.customer_id), NullSk)
        rs == LeftJoin(Lookup(dim, "restaurant_id", o.restaurant_id), NullSk)
        ds == LeftJoin(DateLookup(o.order_date), NULL)
        ts == LeftJoin(TimeLookup(o.order_date), NULL)
        ps == LeftJoin(Lookup(DimPromotion, "promotion_id", o.promotion_id), NullSk)
    IN  Flatten([c \in 1..Len(cs) |-> Flatten([r \in 1..Len(rs) |->
        Flatten([d \in 1..Len(ds) |-> Flatten([t \in 1..Len(ts) |->
            [p \in 1..Len(ps) |->
                [order_sk |-> sk, order_id |-> o.order_id,
                 customer_sk |-> cs[c], restaurant_sk |-> rs[r],
                 order_date_sk |-> ds[d], order_time_sk |-> ts[t],
                 promotion_sk |-> ps[p]]]])])])])

\* the number of unresolved lookups populate_fact_tables reports: it keeps no
\* count, and logs only that it started and completed
LookupMissCount == 0

\* INSERT INTO FACT_ORDER SELECT ... FROM CLEAN_ORDERS o LEFT JOIN ...
FactOrderInsert ==
    factOrder \o Flatten([sk \in 1..Len(cleanOrders) |-> FactOrderOf(sk)])

\* JOIN FACT_ORDER o ON oi.order_id = o.order_id
OrderJoin(key) ==
    SelectSeq([j \in 1..Len(factOrder) |-> j],
              LAMBDA j : SqlEq(key, factOrder[j].order_id) = "TRUE")

\* the FACT_ORDER_ITEM rows the SELECT yields for the clean item with order_item_sk = sk
FactItemOf(sk) ==
    LET oi == cleanItems[sk]
        os == OrderJoin(oi.order_id)
        ps == LeftJoin(Lookup(DimProduct, "product_id", oi.product_id), NullSk)
    IN  Flatten([o \in 1..Len(os) |-> [p \in 1..Len(ps) |->
            [order_item_sk |-> sk, order_item_id |-> oi.order_item_id,
             order_sk |-> factOrder[os[o]].order_sk, product_sk |-> ps[p]]]])

\* INSERT INTO FACT_ORDER_ITEM SELECT ... FROM CLEAN_ORDER_ITEMS oi JOIN FACT_ORDER o ...
FactItemInsert ==
    factItem \o Flatten([sk \in 1..Len(cleanItems) |-> FactItemOf(sk)])

(* ------------------------------- pipeline ------------------------------ *)
orderTables == <<stgOrders, stgItems, cleanOrders, cleanItems, dimDate, dimTime,
                 factOrder, factItem>>

\* the order tables and the count of runs: what a step of the pipeline
\* leaves alone besides the table it writes
productTables == <<stgProducts, cleanProducts>>

pipeFrame == <<productTables, orderTables, runs>>

\* the same and the connection, which a step between the first and the last
\* leaves open
stepFrame == <<pipeFrame, connOpen>>

\* run_etl_pipeline is started: create_schemas, whose first execute_query
\* connects
PipeStart ==
    /\ pipePc = "idle"
    /\ runs < MaxRuns
    /\ runs' = runs + 1
    /\ pipePc' = "load"
    /\ connOpen' = TRUE
    /\ UNCHANGED <<restaurantVars, productTables, orderTables>>

\* create_schemas raises (connect or CREATE SCHEMA): the finally block closes
\* whatever connection was made
PipeStartFail ==
    /\ pipePc = "idle"
    /\ runs < MaxRuns
    /\ runs' = runs + 1
    /\ pipePc' = "failed"
    /\ connOpen' = FALSE
    /\ UNCHANGED <<restaurantVars, productTables, orderTables>>

\* load_stage_tables: the restaurant extract, of one row or none (the runs
\* followed here load versions of restaurant R1)
PipeLoadRestaurants ==
    /\ pipePc = "load"
    /\ \/ /\ LoadStage
          /\ stg'[Len(stg')].loc_number = "R1"
          /\ stg'[Len(stg')].loc_name /= NULL
       \/ UNCHANGED restaurantVars
    /\ pipePc' = "load_products"
    /\ UNCHANGED stepFrame

\* load_stage_tables: COPY INTO STG_PRODUCTS appends the product extract
PipeLoadProducts ==
    \E rows \in ProductExtracts :
        /\ pipePc = "load_products"
        /\ Len(stgProducts) + Len(rows) <= MaxStage
        /\ stgProducts' = stgProducts \o rows
        /\ pipePc' = "load_orders"
        /\ UNCHANGED <<runs, connOpen, restaurantVars, cleanProducts, orderTables>>

\* load_stage_tables: COPY INTO STG_ORDERS appends the order extract
PipeLoadOrders ==
    \E rows \in OrderExtracts :
        /\ pipePc = "load_orders"
        /\ Len(stgOrders) + Len(rows) <= MaxStage
        /\ stgOrders' = stgOrders \o rows
        /\ pipePc' = "load_items"
        /\ UNCHANGED <<runs, connOpen, restaurantVars, productTables,
                   stgItems, cleanOrders, cleanItems, dimDate,
                       dimTime, factOrder, factItem>>

\* load_stage_tables: COPY INTO STG_ORDER_ITEMS appends the item extract
PipeLoadItems ==
    \E rows \in ItemExtracts :
        /\ pipePc = "load_items"
        /\ Len(stgItems) + Len(rows) <= MaxStage
        /\ stgItems' = stgItems \o rows
        /\ pipePc' = "transform"
        /\ UNCHANGED <<runs, connOpen, restaurantVars, productTables,
                   stgOrders, cleanOrders, cleanItems, dimDate,
                       dimTime, factOrder, factItem>>

\* transform_to_clean_layer: the restaurant statement (it may select no row)
PipeTransformRestaurants ==
    /\ pipePc = "transform"
    /\ TransformToClean \/ (BulkTransform(stg, now) = <<>> /\ UNCHANGED restaurantVars)
    /\ pipePc' = "transform_products"
    /\ UNCHANGED stepFrame

\* transform_to_clean_layer: the product statement; when it raises,
\* execute_query re-raises and run_etl_pipeline runs no later step
PipeTransformProducts ==
    /\ pipePc = "transform_products"
    /\ Len(cleanProducts) <= MaxClean
    /\ cleanProducts' = ProductInsert
    /\ IF \E i \in 1..Len(stgProducts) : CastFails(stgProducts[i])
       THEN pipePc' = "failed" /\ connOpen' = FALSE
       ELSE pipePc' = "transform_orders" /\ UNCHANGED connOpen
    /\ UNCHANGED <<runs, restaurantVars, stgProducts, orderTables>>

\* transform_to_clean_layer: INSERT INTO CLEAN_ORDERS ... FROM STG_ORDERS
PipeTransformOrders ==
    /\ pipePc = "transform_orders"
    /\ Len(cleanOrders) + Len(stgOrders) <= MaxClean
    /\ cleanOrders' = cleanOrders \o [i \in 1..Len(stgOrders) |-> CleanOrderOf(stgOrders[i])]
    /\ pipePc' = "transform_items"
    /\ UNCHANGED <<runs, connOpen, restaurantVars, productTables,
                   stgOrders, stgItems, cleanItems, dimDate,
                   dimTime, factOrder, factItem>>

\* transform_to_clean_layer: INSERT INTO CLEAN_ORDER_ITEMS ... FROM STG_ORDER_ITEMS
PipeTransformItems ==
    /\ pipePc = "transform_items"
    /\ Len(cleanItems) + Len(stgItems) <= MaxClean
    /\ cleanItems' = cleanItems \o [i \in 1..Len(stgItems) |-> CleanItemOf(stgItems[i])]
    /\ pipePc' = "dates"
    /\ UNCHANGED <<runs, connOpen, restaurantVars, productTables,
                   stgOrders, stgItems, cleanOrders, dimDate,
                   dimTime, factOrder, factItem>>

\* populate_dimension_tables: INSERT INTO DIM_DATE, the whole calendar again
PipeDates ==
    /\ pipePc = "dates"
    /\ dimDate' = dimDate + 1
    /\ pipePc' = "times"
    /\ UNCHANGED <<runs, connOpen, restaurantVars, productTables,
                   stgOrders, stgItems, cleanOrders, cleanItems,
                   dimTime, factOrder, factItem>>

\* populate_dimension_tables: INSERT INTO DIM_TIME, every minute again
PipeTimes ==
    /\ pipePc = "times"
    /\ dimTime' = dimTime + 1
    /\ pipePc' = "merge"
    /\ UNCHANGED <<runs, connOpen, restaurantVars, productTables,
                   stgOrders, stgItems, cleanOrders, cleanItems,
                   dimDate, factOrder, factItem>>

\* populate_dimension_tables: the MERGE, then the insert for updated rows
PipeMerge ==
    /\ pipePc = "merge"
    /\ BulkMerge
    /\ pipePc' = "insert"
    /\ UNCHANGED stepFrame

PipeInsert ==
    /\ pipePc = "insert"
    /\ BulkInsert
    /\ pipePc' = "fact_order"
    /\ UNCHANGED stepFrame

\* populate_fact_tables: FACT_ORDER
PipeFactOrder ==
    /\ pipePc = "fact_order"
    /\ Len(FactOrderInsert) <= MaxFact
    /\ factOrder' = FactOrderInsert
    /\ pipePc' = "fact_item"
    /\ UNCHANGED <<runs, connOpen, restaurantVars, productTables,
                   stgOrders, stgItems, cleanOrders, cleanItems,
                   dimDate, dimTime, factItem>>

\* populate_fact_tables: FACT_ORDER_ITEM
PipeFactItem ==
    /\ pipePc = "fact_item"
    /\ Len(FactItemInsert) <= MaxFact
    /\ factItem' = FactItemInsert
    /\ pipePc' = "setup"
    /\ UNCHANGED <<runs, connOpen, restaurantVars, productTables,
                   stgOrders, stgItems, cleanOrders, cleanItems,
                   dimDate, dimTime, factOrder>>

\* setup_incremental_loads, which replaces a stream that has nothing pending
\* by one that has nothing pending
PipeSetup ==
    /\ pipePc = "setup"
    /\ \/ SetupIncrementalLoads
       \/ (streamExists /\ streamOffset = Len(stg) /\ deleted = <<>>
              /\ UNCHANGED restaurantVars)
    /\ pipePc' = "idle"
    /\ connOpen' = FALSE
    /\ UNCHANGED pipeFrame

\* a statement raises and run_etl_pipeline returns normally, its connection
\* closed
PipeFailSwallowed ==
    /\ pipePc \notin {"idle", "failed"}
    /\ pipePc' = "idle"
    /\ connOpen' = FALSE
    /\ bulkPc' = "idle"
    /\ UNCHANGED <<stg, deleted, streamExists, streamOffset, clean, dim, now, taskPc,
                   batch, taskStart, productTables, orderTables, runs>>

\* a statement raises: run_etl_pipeline logs, re-raises, runs no later step
\* and closes the connection in its finally block
\* (the model follows no further run of the pipeline after a failed one)
PipeFail ==
    /\ pipePc \notin {"idle", "failed"}
    /\ pipePc' = "failed"
    /\ connOpen' = FALSE
    /\ bulkPc' = "idle"
    /\ UNCHANGED <<stg, deleted, streamExists, streamOffset, clean, dim, now, taskPc,
                   batch, taskStart, productTables, orderTables, runs>>

\* the pipeline run by run_etl_pipeline, and the task the warehouse schedules
FactNext ==
    \/ PipeStart
    \/ PipeStartFail
    \/ PipeLoadRestaurants
    \/ PipeLoadProducts
    \/ PipeLoadOrders
    \/ PipeLoadItems
    \/ PipeTransformRestaurants
    \/ PipeTransformProducts
    \/ PipeTransformOrders
    \/ PipeTransformItems
    \/ PipeDates
    \/ PipeTimes
    \/ PipeMerge
    \/ PipeInsert
    \/ PipeFactOrder
    \/ PipeFactItem
    \/ PipeSetup
    \/ PipeFail
    \/ TaskClean /\ UNCHANGED factVars
    \/ TaskMerge /\ UNCHANGED factVars
    \/ TaskInsert /\ UNCHANGED factVars
    \/ TaskFailFirst /\ UNCHANGED factVars
    \/ TaskFail /\ UNCHANGED factVars
    \/ TaskReturn /\ UNCHANGED factVars

FactSpec == Init /\ [][FactNext]_vars

(* --------------------- the restaurant lookup on its own ---------------- *)
\* The FACT_ORDER statement applied to a clean order that names a
\* restaurant, against the dimension as populate_dimension_tables leaves it.
ResolvedOrders ==
    {<<[order_id |-> "O1", customer_id |-> "U1", restaurant_id |-> k,
        order_date |-> s, promotion_id |-> NULL]>> :
        k \in Keys \cup {NULL}, s \in Stamps}

JoinInit ==
    /\ stg = <<>>
    /\ deleted = <<>>
    /\ streamExists = FALSE
    /\ streamOffset = 0
    /\ clean = <<>>
    /\ dim = <<>>
    /\ now = 0
    /\ bulkPc = "idle"
    /\ taskPc = "idle"
    /\ batch = <<>>
    /\ taskStart = NoRun
    /\ stgProducts = <<>>
    /\ cleanProducts = <<>>
    /\ stgOrders = <<>>
    /\ stgItems = <<>>
    /\ cleanOrders \in ResolvedOrders
    /\ cleanItems = <<>>
    /\ dimDate = 0
    /\ dimTime = 0
    /\ factOrder = <<>>
    /\ factItem = <<>>
    /\ pipePc = "idle"
    /\ connOpen = FALSE
    /\ runs = 0

\* populate_fact_tables: the FACT_ORDER statement
ResolveOrders ==
    /\ Len(FactOrderInsert) <= MaxFact
    /\ factOrder' = FactOrderInsert
    /\ UNCHANGED <<restaurantVars, productTables, stgOrders, stgItems,
                   cleanOrders, cleanItems, dimDate, dimTime, factItem, pipePc,
                   connOpen, runs>>

JoinNext ==
    \/ LoadStage /\ UNCHANGED factVars
    \/ TransformToClean /\ UNCHANGED factVars
    \/ BulkMerge /\ UNCHANGED factVars
    \/ BulkInsert /\ UNCHANGED factVars
    \/ BulkFail /\ UNCHANGED factVars
    \/ ResolveOrders

JoinSpec == JoinInit /\ [][JoinNext]_vars

(* ------------------- deletions from the stage table -------------------- *)
\* RESTAURANT_STREAM is a standard stream ON TABLE STG_RESTAURANTS: a staged
\* row that a statement outside the pipeline deletes shows in it as a DELETE
\* event when the stream had consumed the row, and drops out of it when the
\* row was still pending. The deletions followed here remove the row staged
\* last, once the stream has consumed it, one pending DELETE event at a time.
RemoveAt(rows, i) == SubSeq(rows, 1, i - 1) \o SubSeq(rows, i + 1, Len(rows))

StageDelete ==
    \E i \in {Len(stg)} \ {0} :
        /\ BetweenRuns
        /\ streamExists
        /\ i <= streamOffset
        /\ deleted = <<>>
        /\ stg' = RemoveAt(stg, i)
        /\ streamOffset' = streamOffset - 1
        /\ deleted' = Append(deleted, stg[i])
        /\ UNCHANGED <<streamExists, clean, dim, now, bulkPc, taskPc, batch,
                       taskStart>>

\* (the loads followed here stage versions of restaurant R1)
DeleteNext ==
    \/ LoadStage /\ stg'[Len(stg')].loc_number = "R1"
                 /\ stg'[Len(stg')].loc_name /= NULL /\ UNCHANGED factVars
    \/ StageDelete /\ UNCHANGED factVars
    \/ TransformToClean /\ UNCHANGED factVars
    \/ BulkMerge /\ UNCHANGED factVars
    \/ BulkInsert /\ UNCHANGED factVars
    \/ BulkFail /\ UNCHANGED factVars
    \/ SetupIncrementalLoads /\ UNCHANGED factVars
    \/ TaskClean /\ UNCHANGED factVars
    \/ TaskMerge /\ UNCHANGED factVars
    \/ TaskInsert /\ UNCHANGED factVars
    \/ TaskFailFirst /\ UNCHANGED factVars
    \/ TaskFail /\ UNCHANGED factVars
    \/ TaskReturn /\ UNCHANGED factVars

DeleteSpec == Init /\ [][DeleteNext]_vars

(* ------------------------- reading the tables -------------------------- *)
Rows(table) == 1..Len(table)

CurrentRows(table, k) ==
    {i \in Rows(table) : table[i].restaurant_id = k /\ table[i].is_current}

NumCurrent(k) == Cardinality(CurrentRows(dim, k))

\* the tracked attributes are the same, NULL being the same as NULL
SameAttrs(d, s) == \A a \in Tracked : d[a] = s[a]

\* the candidates of the task's batch (timestamps left aside)
Candidates == StreamTransform(batch, 0)

\* no populate_dimension_tables and no task run is between two statements
Quiescent == bulkPc = "idle" /\ taskPc \in {"idle", "committed"}

BulkMergeStep == bulkPc = "idle" /\ bulkPc' = "merged"
TaskMergeStep == taskPc = "cleaned" /\ taskPc' = "merged"
TaskInsertStep == taskPc = "merged" /\ taskPc' = "committed"

(* C1: after any sequence of bulk runs and task runs, every restaurant     *)
(* natural key has 0 or 1 DIM_RESTAURANT rows with is_current = TRUE.      *)
C1_AtMostOneCurrent ==
    Quiescent => \A k \in Keys : NumCurrent(k) <= 1

(* C2: for every natural key the validity intervals                        *)
(* [effective_from, effective_to) of its rows do not overlap, and a closed *)
(* row's effective_to is the effective_from of a succeeding row.           *)
Until(d) == IF d.effective_to = NullTime THEN MaxTime + 2 ELSE d.effective_to

Overlap(d, e) ==
    /\ d.effective_from < Until(d)
    /\ e.effective_from < Until(e)
    /\ d.effective_from < Until(e)
    /\ e.effective_from < Until(d)

C2_IntervalsContiguous ==
    Quiescent =>
        \A i \in Rows(dim) :
            dim[i].restaurant_id \in Keys =>
                /\ \A j \in Rows(dim) :
                      (j /= i /\ dim[j].restaurant_id = dim[i].restaurant_id)
                          => ~ Overlap(dim[i], dim[j])
                /\ ~ dim[i].is_current =>
                      \E j \in Rows(dim) :
                          /\ dim[j].restaurant_id = dim[i].restaurant_id
                          /\ dim[j].effective_from = dim[i].effective_to

(* C3: when a candidate differs from the current row of its key in a       *)
(* tracked attribute, the run closes that row (effective_to = now,         *)
(* is_current = FALSE) and leaves a new current row with the candidate's   *)
(* attributes and effective_from = that same now.                          *)
ChangedBy(d) ==
    {j \in Rows(Candidates) : MergeOn(d, Candidates[j]) /\ Differs(d, Candidates[j])}

C3_ChangeVersionsRow ==
    taskPc = "committed" =>
        \A i \in Rows(taskStart.dim) :
            (taskStart.dim[i].is_current /\ ChangedBy(taskStart.dim[i]) /= {}) =>
                /\ ~ dim[i].is_current
                /\ dim[i].effective_to /= NullTime
                /\ \E n \in Rows(dim), j \in ChangedBy(taskStart.dim[i]) :
                      /\ dim[n].is_current
                      /\ dim[n].restaurant_id = dim[i].restaurant_id
                      /\ SameAttrs(dim[n], Candidates[j])
                      /\ dim[n].effective_from = dim[i].effective_to
                      /\ dim[n].effective_to = NullTime

(* C4: the close of the current row and the insert of its replacement are  *)
(* one atomic step: a key that has one current row never passes to a       *)
(* state with zero or two current rows.                                    *)
C4_CloseInsertAtomic ==
    [][\A k \in Keys : NumCurrent(k) = 1 => NumCurrent(k)' = 1]_vars

(* C5: re-applying a batch whose candidates all equal the current rows of  *)
(* their natural keys is a no-op: no statement of the merge inserts or     *)
(* closes a dimension row.                                                 *)
AlreadyApplied(source, target) ==
    \A j \in Rows(source) :
        \E i \in CurrentRows(target, source[j].restaurant_id) :
            source[j].restaurant_id \in Keys /\ SameAttrs(target[i], source[j])

C5_ReapplyIsNoOp ==
    [][/\ (BulkMergeStep \/ (bulkPc = "merged" /\ bulkPc' = "idle"))
             /\ AlreadyApplied(clean, dim) => dim' = dim
       /\ TaskMergeStep /\ AlreadyApplied(IncrementalSource(clean, dim), dim)
             => dim' = dim
       /\ TaskInsertStep /\ AlreadyApplied(clean, dim) => dim' = dim]_vars

(* C6: when no current row exists for a candidate's natural key, the merge *)
(* inserts exactly one new row for that key, with effective_from = now,    *)
(* effective_to = NULL and is_current = TRUE.                              *)
HasCandidate(source, k) == \E j \in Rows(source) : source[j].restaurant_id = k

InsertedFor(k) ==
    {i \in (Len(dim) + 1)..Len(dim') : dim'[i].restaurant_id = k}

OneFreshRow(k) ==
    /\ Cardinality(InsertedFor(k)) = 1
    /\ \A i \in InsertedFor(k) :
          /\ dim'[i].effective_from = now'
          /\ dim'[i].effective_to = NullTime
          /\ dim'[i].is_current

C6_FirstVersionInsertedOnce ==
    [][\A k \in Keys :
          /\ (BulkMergeStep /\ HasCandidate(clean, k) /\ NumCurrent(k) = 0)
                => OneFreshRow(k)
          /\ (TaskMergeStep /\ HasCandidate(IncrementalSource(clean, dim), k)
                /\ NumCurrent(k) = 0)
                => OneFreshRow(k)]_vars

(* C7: several candidates for one natural key in a batch are applied in    *)
(* ascending load_timestamp order: the resulting current row is the one    *)
(* row carrying the attributes of the candidate with the greatest          *)
(* load_timestamp.                                                         *)
EventsFor(k) ==
    {j \in Rows(batch) : batch[j].action = "INSERT" /\ batch[j].row.loc_number = k}

Latest(k) ==
    CHOOSE j \in EventsFor(k) :
        \A h \in EventsFor(k) :
            batch[h].row.load_timestamp <= batch[j].row.load_timestamp

C7_LatestCandidateWins ==
    taskPc = "committed" =>
        \A k \in Keys :
            Cardinality(EventsFor(k)) >= 2 =>
                /\ NumCurrent(k) = 1
                /\ \A i \in CurrentRows(dim, k) :
                      SameAttrs(dim[i], CleanOf(batch[Latest(k)].row, 0))

(* C8: a tracked attribute that is NULL in the current row and in the      *)
(* candidate counts as equal: a row is closed only when some candidate of  *)
(* its key has a tracked attribute that is not NULL on both sides and      *)
(* differs.                                                                *)
RealDifference(d, s) ==
    \E a \in Tracked : ~ (d[a] = NULL /\ s[a] = NULL) /\ d[a] /= s[a]

C8_NullEqualsNull ==
    [][\A i \in Rows(dim) :
          (dim[i].is_current /\ ~ dim'[i].is_current) =>
              \E j \in Rows(clean) :
                  /\ clean[j].restaurant_id = dim[i].restaurant_id
                  /\ RealDifference(dim[i], clean[j])]_vars

C8_Witness ==
    /\ bulkPc = "merged"
    /\ \E i \in Rows(dim), j \in Rows(clean) :
          /\ MergeOn(dim[i], clean[j])
          /\ dim[i].restaurant_name = NULL
          /\ clean[j].restaurant_name = NULL
          /\ dim[i].effective_from < now
          /\ \A h \in Rows(clean) :
                clean[h].restaurant_id = dim[i].restaurant_id
                    => clean[h].restaurant_name = NULL

(* C9: a failed incremental run leaves the stream watermark unchanged and  *)
(* the clean and dimension tables as they were when it started.            *)
C9_FailedRunLeavesNoTrace ==
    [][(taskPc /= "failed" /\ taskPc' = "failed") =>
          /\ streamOffset' = taskStart'.offset
          /\ clean' = taskStart'.clean
          /\ dim' = taskStart'.dim]_vars

(* C10: a task run over change events that were all applied before (their *)
(* clean record exists already) adds no row to the clean table and none to *)
(* the dimension table.                                                    *)
AllApplied ==
    \A j \in Rows(batch) :
        \E h \in Rows(taskStart.clean) :
            /\ taskStart.clean[h].restaurant_id = batch[j].row.loc_number
            /\ SameAttrs(taskStart.clean[h], CleanOf(batch[j].row, 0))

C10_ReplayAddsNoRow ==
    (taskPc = "committed" /\ AllApplied) =>
        /\ Len(clean) = Len(taskStart.clean)
        /\ Len(dim) = Len(taskStart.dim)

(* C11: no two SCD2 merges of the restaurant dimension are in progress at  *)
(* the same time: a task run starts only from IDLE, and it never overlaps  *)
(* populate_dimension_tables between its MERGE and its follow-up insert.   *)
BulkInFlight == bulkPc = "merged"
TaskInFlight == taskPc \in {"cleaned", "merged"}

C11_SingleWriter == ~ (BulkInFlight /\ TaskInFlight)

(* C12: no pending change is lost or applied twice: when a task run ends,  *)
(* committed or failed, every change event it read that has a natural key  *)
(* either is still pending on the stream (to be retried at the next tick)  *)
(* or is reflected in the dimension, and by no more rows than the run read *)
(* events of that version.                                                *)
SameVersion(d, r) ==
    d.restaurant_id = r.loc_number /\ d.restaurant_name = r.loc_name

StillPending(r) ==
    \E i \in (streamOffset + 1)..Len(stg) : stg[i] = r

Reflected(r) == \E i \in Rows(dim) : SameVersion(dim[i], r)

AddedFor(r) ==
    {i \in (Len(taskStart.dim) + 1)..Len(dim) : SameVersion(dim[i], r)}

ReadOf(r) ==
    {j \in Rows(batch) : batch[j].row.loc_number = r.loc_number
                         /\ batch[j].row.loc_name = r.loc_name}

C12_NoChangeLostOrTwice ==
    taskPc \in {"committed", "failed"} =>
        \A j \in Rows(batch) :
            batch[j].row.loc_number \in Keys =>
                /\ StillPending(batch[j].row) \/ Reflected(batch[j].row)
                /\ Cardinality(AddedFor(batch[j].row))
                       <= Cardinality(ReadOf(batch[j].row))

(* C13: a task run merges exactly the change events it read: the source   *)
(* of its MERGE is the clean rows its first statement wrote, no more and   *)
(* no fewer, and its follow-up insert adds rows of those clean rows only.  *)
RunRows ==
    SubSeq(clean, Len(taskStart.clean) + 1,
           Len(taskStart.clean) + Len(StreamTransform(batch, 0)))

C13_MergesExactlyNewEvents ==
    [][/\ TaskMergeStep => IncrementalSource(clean, dim) = RunRows
       /\ TaskInsertStep =>
             \A i \in (Len(dim) + 1)..Len(dim') :
                 \E j \in Rows(RunRows) :
                     /\ SqlEq(dim'[i].restaurant_id, RunRows[j].restaurant_id) = "TRUE"
                     /\ SameAttrs(dim'[i], RunRows[j])]_vars

(* C14: the incremental path does what the bulk path does on the same     *)
(* input: the task's first statement writes the clean rows the bulk        *)
(* transform writes for the same staged rows, and its MERGE leaves the     *)
(* dimension as the bulk MERGE would from the same tables.                 *)
TaskCleanStep == taskPc = "idle" /\ taskPc' = "cleaned"

PendingRows == [i \in 1..Len(Pending) |-> Pending[i].row]

C14_PathsIdentical ==
    [][/\ TaskCleanStep => clean' = clean \o BulkTransform(PendingRows, now')
       /\ TaskMergeStep => dim' = Merge(dim, clean, now')]_vars

(* C15: populate_fact_tables writes exactly one fact row for each clean    *)
(* order and one for each clean order item, whatever the dimension and     *)
(* fact tables hold.                                                       *)
FactOrderStep == pipePc = "fact_order" /\ pipePc' = "fact_item"
FactItemStep == pipePc = "fact_item" /\ pipePc' = "setup"

NewOrderFacts(sk) ==
    {i \in (Len(factOrder) + 1)..Len(factOrder') : factOrder'[i].order_sk = sk}

NewItemFacts(sk) ==
    {i \in (Len(factItem) + 1)..Len(factItem') : factItem'[i].order_item_sk = sk}

C15_OneFactRowPerRecord ==
    [][/\ FactOrderStep =>
             \A sk \in Rows(cleanOrders) : Cardinality(NewOrderFacts(sk)) = 1
       /\ FactItemStep =>
             \A sk \in Rows(cleanItems) : Cardinality(NewItemFacts(sk)) = 1]_vars

(* C16: a record whose dimension lookup finds no current dimension row     *)
(* still gets its fact row, with NULL as that dimension's surrogate key:   *)
(* so for the restaurant and customer of an order and for the product of   *)
(* an order item.                                                          *)
Miss(table, attr, key) == Lookup(table, attr, key) = <<>>

C16_MissYieldsNullKey ==
    [][/\ FactOrderStep =>
             \A sk \in Rows(cleanOrders) :
                 /\ Miss(dim, "restaurant_id", cleanOrders[sk].restaurant_id) =>
                       /\ NewOrderFacts(sk) /= {}
                       /\ \A i \in NewOrderFacts(sk) : factOrder'[i].restaurant_sk = NullSk
                 /\ Miss(DimCustomer, "customer_id", cleanOrders[sk].customer_id) =>
                       /\ NewOrderFacts(sk) /= {}
                       /\ \A i \in NewOrderFacts(sk) : factOrder'[i].customer_sk = NullSk
       /\ FactItemStep =>
             \A sk \in Rows(cleanItems) :
                 Miss(DimProduct, "product_id", cleanItems[sk].product_id) =>
                     /\ NewItemFacts(sk) /= {}
                     /\ \A i \in NewItemFacts(sk) : factItem'[i].product_sk = NullSk]_vars

(* C17: every unresolved dimension lookup is counted: once                *)
(* populate_fact_tables has run, the reported lookup-miss count equals the *)
(* number of NULL dimension keys the misses left in the fact rows.         *)
NullKeys ==
    Cardinality({<<i, c>> \in Rows(factOrder) \X {"customer_sk", "restaurant_sk", "promotion_sk"} :
                    factOrder[i][c] = NullSk})
    + Cardinality({i \in Rows(factItem) : factItem[i].product_sk = NullSk})

C17_MissesCounted ==
    pipePc = "setup" => LookupMissCount = NullKeys

(* C18: a non-NULL restaurant surrogate key stored in a fact row names a  *)
(* dimension row that has the order's natural key and was current when    *)
(* the fact row was resolved.                                              *)
C18_KeyNamesCurrentRow ==
    [][\A i \in (Len(factOrder) + 1)..Len(factOrder') :
          factOrder'[i].restaurant_sk /= NullSk =>
              /\ factOrder'[i].restaurant_sk \in Rows(dim)
              /\ dim[factOrder'[i].restaurant_sk].restaurant_id
                     = cleanOrders[factOrder'[i].order_sk].restaurant_id
              /\ dim[factOrder'[i].restaurant_sk].is_current]_vars

\* an order was resolved to a restaurant row while the dimension also held
\* a closed version of that restaurant
C18_Witness ==
    \E i \in Rows(factOrder) :
        /\ factOrder[i].restaurant_sk /= NullSk
        /\ \E sk \in Rows(dim) :
              /\ ~ dim[sk].is_current
              /\ dim[sk].restaurant_id = dim[factOrder[i].restaurant_sk].restaurant_id

(* C19: fact rows are immutable: a statement that changes DIM_RESTAURANT,  *)
(* in populate_dimension_tables or in the task, changes no fact row, and   *)
(* every surrogate key goes on naming the same version (the row keeps its  *)
(* place, natural key, tracked attributes and effective_from).             *)
SameVersionRow(d, e) ==
    /\ d.restaurant_id = e.restaurant_id
    /\ SameAttrs(d, e)
    /\ d.effective_from = e.effective_from

C19_FactRowsImmutable ==
    [][dim' /= dim =>
          /\ factOrder' = factOrder
          /\ factItem' = factItem
          /\ Len(dim') >= Len(dim)
          /\ \A sk \in Rows(dim) : SameVersionRow(dim'[sk], dim[sk])]_vars

\* a task run has just closed a version while the fact rows of the first
\* pipeline run exist
C19_Witness ==
    /\ factOrder /= <<>>
    /\ runs = 2
    /\ pipePc = "load_orders"
    /\ taskPc = "merged"
    /\ \E sk \in Rows(dim) : ~ dim[sk].is_current /\ dim[sk].effective_to = now

(* C20: a staged record without its natural key produces no clean record:  *)
(* no clean restaurant has a NULL restaurant_id and no clean order a NULL  *)
(* order_id.                                                               *)
C20_MissingKeyDropped ==
    /\ \A i \in Rows(clean) : clean[i].restaurant_id /= NULL
    /\ \A i \in Rows(cleanOrders) : cleanOrders[i].order_id /= NULL


(* C21: a field coercion failure affects only the offending record: when   *)
(* the product statement runs over a stage table holding a product whose   *)
(* price is no number, every other staged product still gets its clean     *)
(* record.                                                                 *)
ProductTransformStep == pipePc = "transform_products" /\ pipePc' /= pipePc

C21_CoercionFailureIsolated ==
    [][ProductTransformStep /\ (\E i \in Rows(stgProducts) : CastFails(stgProducts[i]))
       => \A i \in Rows(stgProducts) :
            ~ CastFails(stgProducts[i])
            => \E j \in (Len(cleanProducts) + 1)..Len(cleanProducts') :
                  cleanProducts'[j] = CleanProductOf(stgProducts[i])]_vars


(* C22: every clean restaurant record carries the source_system,           *)
(* source_file and load_timestamp of the staged record it was produced     *)
(* from, unchanged.                                                        *)
LineageColumns == {"source_system", "source_file", "load_timestamp"}

Lineage(r) == [c \in LineageColumns \cap DOMAIN r |-> r[c]]

C22_LineageCarried ==
    \A i \in Rows(clean) :
        \E j \in Rows(stg) :
            /\ stg[j].loc_number = clean[i].restaurant_id
            /\ stg[j].loc_name = clean[i].restaurant_name
            /\ Lineage(clean[i]) = Lineage(stg[j])


(* C23: a bulk stage load is an idempotent full replace: when the extract  *)
(* already loaded is loaded again, the stage table holds exactly the rows  *)
(* of one load.                                                            *)
StageLoadStep == stg' /= stg

SameRaw(a, b) == a.loc_number = b.loc_number /\ a.loc_name = b.loc_name

C23_LoadReplaces ==
    [][StageLoadStep /\ (\A i \in Rows(stg) : SameRaw(stg[i], stg'[Len(stg')]))
       => Len(stg') = 1]_vars


(* C24: the clean layer of the restaurant entity is SCD2-versioned:        *)
(* CLEAN_RESTAURANTS holds at most one row with is_current = TRUE per      *)
(* restaurant_id, and a version followed by a later one of its key has     *)
(* is_current = FALSE and a non-NULL effective_to.                         *)
C24_CleanVersioned ==
    /\ \A k \in Keys : Cardinality(CurrentRows(clean, k)) <= 1
    /\ \A i, j \in Rows(clean) :
          i < j /\ clean[i].restaurant_id \in Keys
                /\ clean[i].restaurant_id = clean[j].restaurant_id
          => ~ clean[i].is_current /\ clean[i].effective_to /= NullTime


(* C25: once DIM_DATE and DIM_TIME are populated, the lookup of a          *)
(* transaction timestamp whose date lies in the generated calendar         *)
(* resolves to exactly one date surrogate key and to exactly one time      *)
(* surrogate key, whatever its seconds and however often the dimensions    *)
(* were populated.                                                         *)
KeysFound(matches) == {matches[i] : i \in 1..Len(matches)}

C25_LookupResolvesOnce ==
    dimDate > 0 /\ dimTime > 0
    => \A s \in Stamps :
          DateOf(s) \in Calendar
          => /\ Cardinality(KeysFound(DateLookup(s))) = 1
             /\ Cardinality(KeysFound(TimeLookup(s))) = 1


(* C26: a tracked attribute that is NULL on one side and a value on the    *)
(* other counts as a difference: a MERGE whose source holds such a         *)
(* candidate for the current row of its key closes that row.               *)
NullFlip(d, s) == \E a \in Tracked : (d[a] = NULL) /= (s[a] = NULL)

ClosesNullFlips(source) ==
    \A i \in Rows(dim) :
        (dim[i].is_current /\ \E j \in Rows(source) :
                                 MergeOn(dim[i], source[j]) /\ NullFlip(dim[i], source[j]))
        => ~ dim'[i].is_current

C26_NullChangeVersions ==
    [][/\ BulkMergeStep => ClosesNullFlips(clean)
       /\ TaskMergeStep => ClosesNullFlips(IncrementalSource(clean, dim))]_vars


(* C27: when populate_dimension_tables or a task run completes, a          *)
(* restaurant of the merge source has a current row in DIM_RESTAURANT: at  *)
(* the end of the bulk run every key of the clean table that the           *)
(* dimension knows, and at the end of a task run every key whose current   *)
(* row was closed since the run started.                                   *)
BulkInsertStep ==
    bulkPc = "merged" /\ bulkPc' = "idle" /\ dim' = InsertUpdated(dim, clean, now')

HasRow(table, k) == \E i \in Rows(table) : table[i].restaurant_id = k

C27_ReplacedByEndOfRun ==
    [][/\ BulkInsertStep
          => \A k \in Keys :
                HasRow(clean, k) /\ HasRow(dim, k) => CurrentRows(dim', k) /= {}
       /\ TaskInsertStep
          => \A i \in Rows(taskStart.dim) :
                taskStart.dim[i].is_current /\ ~ dim[i].is_current
                => CurrentRows(dim', dim[i].restaurant_id) /= {}]_vars


(* C28: a delete change event changes nothing downstream: the task        *)
(* inserts clean rows for the INSERT events it reads and none for a DELETE *)
(* event, and a run that reads DELETE events only removes no               *)
(* DIM_RESTAURANT row, closes a row only for a differing row of the clean  *)
(* table and inserts a row only for a row of the clean table.              *)
OnlyDeletes(events) ==
    events /= <<>> /\ \A j \in Rows(events) : events[j].action = "DELETE"

InsertEvents(events) == {j \in Rows(events) : events[j].action = "INSERT"}

DimFromClean ==
    /\ Len(dim') >= Len(dim)
    /\ \A i \in Rows(dim) :
          /\ SameVersionRow(dim'[i], dim[i])
          /\ dim[i].is_current /\ ~ dim'[i].is_current
             => \E j \in Rows(clean) :
                   /\ clean[j].restaurant_id = dim[i].restaurant_id
                   /\ RealDifference(dim[i], clean[j])
    /\ \A n \in (Len(dim) + 1)..Len(dim') :
          \E j \in Rows(clean) :
              /\ clean[j].restaurant_id = dim'[n].restaurant_id
              /\ SameAttrs(dim'[n], clean[j])

C28_DeleteChangesNothing ==
    [][/\ TaskCleanStep
          => /\ Len(clean') = Len(clean) + Cardinality(InsertEvents(Pending))
             /\ SubSeq(clean', 1, Len(clean)) = clean
       /\ TaskCleanStep /\ OnlyDeletes(Pending) => clean' = clean
       /\ (TaskMergeStep \/ TaskInsertStep) /\ OnlyDeletes(batch) => DimFromClean]_vars

C28_Witness ==
    /\ taskPc = "committed"
    /\ OnlyDeletes(batch)
    /\ clean = taskStart.clean
    /\ CurrentRows(dim, batch[1].row.loc_number) /= {}


(* C29: every FACT_ORDER row produced from the clean orders that           *)
(* transform_to_clean_layer writes has a NULL restaurant_sk and a NULL     *)
(* promotion_sk, whatever DIM_RESTAURANT holds.                            *)
C29_OrderKeysNull ==
    \A i \in Rows(factOrder) :
        factOrder[i].restaurant_sk = NullSk /\ factOrder[i].promotion_sk = NullSk

C29_Witness ==
    /\ pipePc = "fact_item"
    /\ factOrder /= <<>>
    /\ \E k \in Keys : CurrentRows(dim, k) /= {}


(* C30: run_etl_pipeline runs its steps strictly in the order               *)
(* create_schemas, load_stage_tables, transform_to_clean_layer,            *)
(* populate_dimension_tables, populate_fact_tables,                        *)
(* setup_incremental_loads; when a step raises no later step runs and the  *)
(* exception reaches the caller; the connection is closed when the         *)
(* pipeline is left, by return or by exception.                            *)
\* the number of pipeline steps completed at a position of a running pipeline
StepsDone(pc) ==
    CASE pc \in {"load", "load_products", "load_orders", "load_items"} -> 1
      [] pc \in {"transform", "transform_products", "transform_orders",
                 "transform_items"} -> 2
      [] pc \in {"dates", "times", "merge", "insert"} -> 3
      [] pc \in {"fact_order", "fact_item"} -> 4
      [] pc = "setup" -> 5
      [] OTHER -> 0

Running(pc) == pc \notin {"idle", "failed"}

C30_PipelineOrder ==
    [][/\ pipePc' /= pipePc
          => \/ pipePc = "idle" /\ Running(pipePc') /\ StepsDone(pipePc') = 1 /\ connOpen'
             \/ /\ Running(pipePc) /\ Running(pipePc') /\ connOpen'
                /\ StepsDone(pipePc') \in {StepsDone(pipePc), StepsDone(pipePc) + 1}
             \/ pipePc = "setup" /\ pipePc' = "idle" /\ ~ connOpen'
             \/ pipePc /= "failed" /\ pipePc' = "failed" /\ ~ connOpen'
       /\ pipePc = "failed"
          => /\ pipePc' = "failed"
             /\ UNCHANGED <<productTables, orderTables, connOpen>>
       /\ pipePc = pipePc'
          => UNCHANGED <<productTables, orderTables, connOpen>>]_vars

C30_Witness ==
    /\ pipePc = "failed"
    /\ ~ connOpen
    /\ cleanOrders /= <<>>
    /\ factOrder = <<>>
    /\ dimDate > 0

====================
